---- MODULE Spec2Model ----
(***************************************************************************)
(* Model of bindings/rust/src/rows.rs: the asynchronous row stream (Rows,  *)
(* its Next future) over a shared, mutex-guarded turso_core::Statement,    *)
(* and the materialized Row with positional and by-name column access.     *)
(*                                                                         *)
(* The statement (turso_core::Statement) lives outside rows.rs; it is      *)
(* modelled from its boundary contract as a scripted engine: a fixed row   *)
(* sequence EngineRows, a cursor pos, and nondeterministic IO / Busy /     *)
(* Interrupt / error answers under budgets.                                *)
(***************************************************************************)
EXTENDS Integers, Sequences, FiniteSets, TLC

(* ------------------------------ bounds -------------------------------- *)
MaxRows == 2
MaxIO == 2
MaxFail == 1
MaxCalls == 3
MaxCols == 2

(* usize::MAX, scaled to the largest integer of the model checker; the    *)
(* code only compares an index with column_count(), it never adds to it.   *)
UsizeMax == 2147483647

(* ------------------------ values and results -------------------------- *)
(* handle ids: the stream created by Rows::new and one clone of it *)
Clones == {1, 2}

(* turso_core::Value as stored in a Row; payloads are coded as integers *)
CoreValue(k, p) == [kind |-> k, payload |-> p]
CoreNull == CoreValue("Null", 0)
CoreValues ==
    { CoreNull,
      CoreValue("Integer", 1), CoreValue("Integer", 2),
      CoreValue("Float", 1),
      CoreValue("Text", 1),
      CoreValue("Blob", 1) }

(* column names of the prepared statement, get_column_name(0..num_columns) *)
ColumnNames == <<"id", "name">>
num_columns == Len(ColumnNames)

(* the i-th row of the scripted engine: num_columns values, distinct per i *)
EngineRow(i) == <<CoreValue("Integer", i), CoreValue("Text", i)>>

SeqsUpTo(S, n) == UNION { [1..k -> S] : k \in 0..n }

(* Result<Option<Row>> of one advancement; seq is a history tag: the index *)
(* in EngineRows of the engine row the Row was read from.                  *)
OkSome(r, k) == [tag |-> "Some", row |-> r, seq |-> k, err |-> "", msg |-> ""]
OkNone == [tag |-> "None", row |-> <<>>, seq |-> 0, err |-> "", msg |-> ""]
Failure(e, m) == [tag |-> "Err", row |-> <<>>, seq |-> 0, err |-> e, msg |-> m]
NoResult == [tag |-> "", row |-> <<>>, seq |-> 0, err |-> "", msg |-> ""]

ErrLocked == Failure("SqlExecutionFailure", "database is locked")
ErrInterrupted == Failure("SqlExecutionFailure", "interrupted")
ErrMutex == Failure("MutexError", "poisoned lock")
ErrStep == Failure("EngineError", "step")
ErrRunOnce == Failure("EngineError", "run_once")

VARIABLES
    EngineRows,   \* the engine-level row sequence r1..rn of the statement
    pos,          \* engine cursor: number of rows the engine has produced
    cur,          \* engine's current-row buffer (what stmt.row() returns)
    ioLeft,       \* IO answers the scripted engine may still give
    failLeft,     \* Busy/Interrupt/error answers it may still give
    lockHolder,   \* handle whose poll holds the statement mutex, 0 = free
    poisoned,     \* the mutex is poisoned
    handles,      \* the Rows handles that exist (clones of handle 1)
    pc,           \* per handle: position of its advancement
    ret,          \* per handle: the Poll::Ready value being returned
    trace,        \* per handle: lock/engine calls of the current advancement
    produced,     \* history: rows read under the lock, in lock order
    results,      \* history: completed next() results, in order of return
    held,         \* per handle: the Row its caller holds (<<>> or <<entry>>)
    calls,        \* number of next() calls made so far
    abandoned,    \* history: a suspended advancement has been dropped
    waker,        \* handles whose task waker the engine holds for pending I/O
    woken,        \* handles whose task has been woken and not yet polled again
    row,          \* Row under access (<<>> or <<row>>)
    call,         \* last Row access: operation and arguments
    out,          \* its result
    origin        \* history: how the Row under access was built, from what

streamVars == <<EngineRows, pos, cur, ioLeft, failLeft, lockHolder, poisoned,
                handles, pc, ret, trace, produced, results, held, calls,
                abandoned>>
wakeVars == <<waker, woken>>
rowVars == <<row, call, out, origin>>
vars == <<streamVars, wakeVars, rowVars>>

NoCall == [op |-> "", idx |-> 0, name |-> "", ty |-> ""]
NoOut == [tag |-> "", val |-> CoreNull, idx |-> 0, err |-> "", name |-> ""]
NoOrigin == [path |-> "", vals |-> <<>>, names |-> <<>>]

(* ------------------------------- Row ---------------------------------- *)
(* struct Row { values, names } *)
Row(values, names) == [values |-> values, names |-> names]

(* variant of RowFromStmt: the names are collected from index 1, leaving  *)
(* out column 0                                                            *)
RowFromStmtSkipsFirstName(rowValues, ncols, colNames) ==
    [values |-> [i \in 1..Len(rowValues) |-> rowValues[i]],
     names |-> [i \in 1..(ncols - 1) |-> colNames[i + 1]]]

(* Next::poll, Row branch: values copied (to_owned) from the engine's      *)
(* current row, names from get_column_name(idx) for idx in 0..num_columns. *)
RowFromStmt(rowValues, ncols, colNames) ==
    Row([i \in 1..Len(rowValues) |-> rowValues[i]],
        [i \in 1..ncols |-> colNames[i]])

(* ------------------------- the scripted engine ------------------------ *)
(* advance-one-step may answer Row-ready: rows remain *)
EngineHasRow == pos < Len(EngineRows)

(* advance-one-step may answer Finished: the cursor is past the last row *)
EngineFinished == pos = Len(EngineRows)

(* the row the engine moves to on Row-ready *)
EngineNextRow == EngineRows[pos + 1]

(* advance-one-step may answer Must-suspend *)
EngineMayBlock == ioLeft > 0

(* advance-one-step may answer Busy / Interrupted / an error, and          *)
(* drive-pending-I/O-once may fail                                         *)
EngineMayFail == failLeft > 0

(* ------------------------- reading the history ------------------------ *)
(* handle c has had an advancement fail with an execution failure *)
HasFailed(c) ==
    \E i \in 1..Len(results) :
        /\ results[i].who = c
        /\ results[i].res.tag = "Err"
        /\ results[i].res.err # "MutexError"

(* ---------------------------- the stream ------------------------------ *)
Init ==
    /\ EngineRows \in { [i \in 1..n |-> EngineRow(i)] : n \in 0..MaxRows }
    /\ pos = 0
    /\ cur = <<>>
    /\ ioLeft = MaxIO
    /\ failLeft = MaxFail
    /\ lockHolder = 0
    /\ poisoned = FALSE
    /\ handles = {1}
    /\ pc = [c \in Clones |-> "idle"]
    /\ ret = [c \in Clones |-> NoResult]
    /\ trace = [c \in Clones |-> <<>>]
    /\ produced = <<>>
    /\ results = <<>>
    /\ held = [c \in Clones |-> <<>>]
    /\ calls = 0
    /\ abandoned = FALSE
    /\ waker = {}
    /\ woken = {}
    /\ row = <<>>
    /\ call = NoCall
    /\ out = NoOut
    /\ origin = NoOrigin

(* impl Clone for Rows: a new handle on the same Arc<Mutex<Statement>> *)
CloneRows(c, d) ==
    /\ c \in handles
    /\ d \in Clones \ handles
    /\ handles' = handles \cup {d}
    /\ UNCHANGED <<EngineRows, pos, cur, ioLeft, failLeft, lockHolder, poisoned,
                   pc, ret, trace, produced, results, held, calls, abandoned,
                   rowVars, wakeVars>>

(* Rows::next up to the first poll: the Next future is created *)
CallNext(c) ==
    /\ c \in handles
    /\ pc[c] = "idle"
    /\ calls < MaxCalls
    /\ calls' = calls + 1
    /\ pc' = [pc EXCEPT ![c] = "created"]
    /\ trace' = [trace EXCEPT ![c] = <<>>]
    /\ UNCHANGED <<EngineRows, pos, cur, ioLeft, failLeft, lockHolder, poisoned,
                   handles, ret, produced, results, held, abandoned, rowVars,
                   wakeVars>>

(* variant of Acquire: Rows remembers a failed advancement and, once one   *)
(* has failed, completes with the failure again without taking the lock    *)
AcquireClosedAfterFailure(c) ==
    /\ pc[c] \in {"created", "suspended"}
    /\ lockHolder = 0
    /\ IF poisoned \/ HasFailed(c)
       THEN /\ pc' = [pc EXCEPT ![c] = "ret"]
            /\ ret' = [ret EXCEPT ![c] = IF poisoned THEN ErrMutex ELSE ErrLocked]
            /\ trace' = [trace EXCEPT ![c] = Append(@, "lockfail")]
            /\ UNCHANGED lockHolder
       ELSE /\ pc' = [pc EXCEPT ![c] = "locked"]
            /\ lockHolder' = c
            /\ trace' = [trace EXCEPT ![c] = Append(@, "lock")]
            /\ UNCHANGED ret
    /\ UNCHANGED <<EngineRows, pos, cur, ioLeft, failLeft, poisoned, handles,
                   produced, results, held, calls, abandoned, rowVars>>
    /\ woken' = woken \ {c}
    /\ UNCHANGED waker

(* variant of Acquire: the poll does not wait for the mutex and enters    *)
(* while another poll is inside                                            *)
AcquireWithoutWaiting(c) ==
    /\ pc[c] \in {"created", "suspended"}
    /\ IF poisoned
       THEN /\ pc' = [pc EXCEPT ![c] = "ret"]
            /\ ret' = [ret EXCEPT ![c] = ErrMutex]
            /\ trace' = [trace EXCEPT ![c] = Append(@, "lockfail")]
            /\ UNCHANGED lockHolder
       ELSE /\ pc' = [pc EXCEPT ![c] = "locked"]
            /\ lockHolder' = c
            /\ trace' = [trace EXCEPT ![c] = Append(@, "lock")]
            /\ UNCHANGED ret
    /\ UNCHANGED <<EngineRows, pos, cur, ioLeft, failLeft, poisoned, handles,
                   produced, results, held, calls, abandoned, rowVars>>
    /\ woken' = woken \ {c}
    /\ UNCHANGED waker

(* variant of Acquire: lock() hands out the guard of a poisoned mutex *)
AcquireIgnoresPoison(c) ==
    /\ pc[c] \in {"created", "suspended"}
    /\ lockHolder = 0
    /\ pc' = [pc EXCEPT ![c] = "locked"]
    /\ lockHolder' = c
    /\ trace' = [trace EXCEPT ![c] = Append(@, "lock")]
    /\ UNCHANGED ret
    /\ UNCHANGED <<EngineRows, pos, cur, ioLeft, failLeft, poisoned, handles,
                   produced, results, held, calls, abandoned, rowVars>>
    /\ woken' = woken \ {c}
    /\ UNCHANGED waker

(* Next::poll, self.stmt.lock().map_err(..)?: blocks while another poll    *)
(* holds the mutex; a poisoned mutex completes the poll with MutexError.   *)
(* Being polled uses up the task's wake-up.                                *)
Acquire(c) ==
    /\ pc[c] \in {"created", "suspended"}
    /\ lockHolder = 0
    /\ IF poisoned
       THEN /\ pc' = [pc EXCEPT ![c] = "ret"]
            /\ ret' = [ret EXCEPT ![c] = ErrMutex]
            /\ trace' = [trace EXCEPT ![c] = Append(@, "lockfail")]
            /\ UNCHANGED lockHolder
       ELSE /\ pc' = [pc EXCEPT ![c] = "locked"]
            /\ lockHolder' = c
            /\ trace' = [trace EXCEPT ![c] = Append(@, "lock")]
            /\ UNCHANGED ret
    /\ UNCHANGED <<EngineRows, pos, cur, ioLeft, failLeft, poisoned, handles,
                   produced, results, held, calls, abandoned, rowVars>>
    /\ woken' = woken \ {c}
    /\ UNCHANGED waker

(* variant of Complete: the guard outlives the poll that returns Ready *)
CompleteKeepsGuard(c, r, ev) ==
    /\ pc' = [pc EXCEPT ![c] = "ret"]
    /\ ret' = [ret EXCEPT ![c] = r]
    /\ UNCHANGED lockHolder
    /\ trace' = [trace EXCEPT ![c] = @ \o ev]

(* the poll returns Poll::Ready(r): the guard is dropped on the way out *)
Complete(c, r, ev) ==
    /\ pc' = [pc EXCEPT ![c] = "ret"]
    /\ ret' = [ret EXCEPT ![c] = r]
    /\ lockHolder' = 0
    /\ trace' = [trace EXCEPT ![c] = @ \o ev]

(* variant of StepRow: the guard is released right after the step, so the *)
(* row is read outside the critical section of its step                    *)
StepRowUnlocked(c) ==
    /\ pc[c] = "locked"
    /\ EngineHasRow
    /\ pos' = pos + 1
    /\ cur' = EngineNextRow
    /\ pc' = [pc EXCEPT ![c] = "row"]
    /\ lockHolder' = 0
    /\ trace' = [trace EXCEPT ![c] = Append(@, "step:Row")]
    /\ UNCHANGED <<EngineRows, ioLeft, failLeft, poisoned, handles,
                   ret, produced, results, held, calls, abandoned, rowVars, wakeVars>>

(* variant of StepRow: a Row borrows the engine's current-row buffer       *)
(* instead of owning copies, so every Row handed out follows the cursor    *)
StepRowAliased(c) ==
    /\ pc[c] = "locked"
    /\ EngineHasRow
    /\ pos' = pos + 1
    /\ cur' = EngineNextRow
    /\ pc' = [pc EXCEPT ![c] = "row"]
    /\ trace' = [trace EXCEPT ![c] = Append(@, "step:Row")]
    /\ held' = [d \in Clones |->
                  IF held[d] = <<>> THEN <<>>
                  ELSE <<[row |-> [values |-> EngineNextRow,
                                   names |-> held[d][1].row.names],
                          seq |-> held[d][1].seq]>>]
    /\ UNCHANGED <<EngineRows, ioLeft, failLeft, lockHolder, poisoned, handles,
                   ret, produced, results, calls, abandoned, rowVars, wakeVars>>

(* step_with_waker answers StepResult::Row: the match takes the Row arm *)
StepRow(c) ==
    /\ pc[c] = "locked"
    /\ EngineHasRow
    /\ pos' = pos + 1
    /\ cur' = EngineNextRow
    /\ pc' = [pc EXCEPT ![c] = "row"]
    /\ trace' = [trace EXCEPT ![c] = Append(@, "step:Row")]
    /\ UNCHANGED <<EngineRows, ioLeft, failLeft, lockHolder, poisoned, handles,
                   ret, produced, results, held, calls, abandoned, rowVars, wakeVars>>

(* Row arm: stmt.row().unwrap(), values and names copied into a Row *)
ReadRow(c) ==
    /\ pc[c] = "row"
    /\ cur # <<>>
    /\ produced' = Append(produced, RowFromStmt(cur, num_columns, ColumnNames))
    /\ Complete(c, OkSome(RowFromStmt(cur, num_columns, ColumnNames), pos),
                <<"row", "names">>)
    /\ UNCHANGED <<EngineRows, pos, cur, ioLeft, failLeft, poisoned, handles,
                   results, held, calls, abandoned, rowVars, wakeVars>>

(* step_with_waker answers StepResult::Done *)
StepDone(c) ==
    /\ pc[c] = "locked"
    /\ EngineFinished
    /\ cur' = <<>>
    /\ Complete(c, OkNone, <<"step:Done">>)
    /\ UNCHANGED <<EngineRows, pos, ioLeft, failLeft, poisoned, handles,
                   produced, results, held, calls, abandoned, rowVars, wakeVars>>

(* step_with_waker answers StepResult::IO: the engine keeps the task's     *)
(* waker for the pending I/O, the match takes the IO arm                   *)
(* variant of StepIO: the step is made without the task's waker, so the    *)
(* engine has nothing to invoke when the I/O is done                       *)
StepIONoWaker(c) ==
    /\ pc[c] = "locked"
    /\ EngineMayBlock
    /\ ioLeft' = ioLeft - 1
    /\ pc' = [pc EXCEPT ![c] = "io"]
    /\ trace' = [trace EXCEPT ![c] = Append(@, "step:IO")]
    /\ UNCHANGED <<EngineRows, pos, cur, failLeft, lockHolder, poisoned, handles,
                   ret, produced, results, held, calls, abandoned, rowVars>>
    /\ UNCHANGED <<waker, woken>>

StepIO(c) ==
    /\ pc[c] = "locked"
    /\ EngineMayBlock
    /\ ioLeft' = ioLeft - 1
    /\ pc' = [pc EXCEPT ![c] = "io"]
    /\ trace' = [trace EXCEPT ![c] = Append(@, "step:IO")]
    /\ UNCHANGED <<EngineRows, pos, cur, failLeft, lockHolder, poisoned, handles,
                   ret, produced, results, held, calls, abandoned, rowVars>>
    /\ waker' = waker \cup {c}
    /\ UNCHANGED woken

(* variant of RunOnceOk: after run_once the poll steps once more and       *)
(* drops the answer before returning Pending                               *)
RunOnceOkResteps(c) ==
    /\ pc[c] = "io"
    /\ pc' = [pc EXCEPT ![c] = "suspended"]
    /\ lockHolder' = 0
    /\ pos' = IF EngineHasRow THEN pos + 1 ELSE pos
    /\ cur' = IF EngineHasRow THEN EngineNextRow ELSE <<>>
    /\ trace' = [trace EXCEPT ![c] = @ \o <<"run_once", "pending">>]
    /\ UNCHANGED <<EngineRows, ioLeft, failLeft, poisoned, handles,
                   ret, produced, results, held, calls, abandoned, rowVars, wakeVars>>

(* variant of RunOnceOk: the poll loops, stepping again under the same     *)
(* guard until the engine stops answering IO, and never returns Pending    *)
RunOnceOkLoops(c) ==
    /\ pc[c] = "io"
    /\ pc' = [pc EXCEPT ![c] = "locked"]
    /\ trace' = [trace EXCEPT ![c] = Append(@, "run_once")]
    /\ UNCHANGED <<EngineRows, pos, cur, ioLeft, failLeft, lockHolder, poisoned,
                   handles, ret, produced, results, held, calls, abandoned,
                   rowVars, wakeVars>>

(* variant of RunOnceOk: the guard is stored in the future and kept while  *)
(* the advancement is suspended                                            *)
RunOnceOkKeepsGuard(c) ==
    /\ pc[c] = "io"
    /\ pc' = [pc EXCEPT ![c] = "suspended"]
    /\ trace' = [trace EXCEPT ![c] = @ \o <<"run_once", "pending">>]
    /\ UNCHANGED <<EngineRows, pos, cur, ioLeft, failLeft, lockHolder, poisoned,
                   handles, ret, produced, results, held, calls, abandoned,
                   rowVars, wakeVars>>

(* IO arm: stmt.run_once()? succeeded, the poll returns Poll::Pending *)
RunOnceOk(c) ==
    /\ pc[c] = "io"
    /\ pc' = [pc EXCEPT ![c] = "suspended"]
    /\ lockHolder' = 0
    /\ trace' = [trace EXCEPT ![c] = @ \o <<"run_once", "pending">>]
    /\ UNCHANGED <<EngineRows, pos, cur, ioLeft, failLeft, poisoned, handles,
                   ret, produced, results, held, calls, abandoned, rowVars, wakeVars>>

(* variant of RunOnceErr: the error of run_once is dropped and the poll    *)
(* returns Pending as after a successful run_once                          *)
RunOnceErrSwallowed(c) ==
    /\ pc[c] = "io"
    /\ EngineMayFail
    /\ failLeft' = failLeft - 1
    /\ pc' = [pc EXCEPT ![c] = "suspended"]
    /\ lockHolder' = 0
    /\ trace' = [trace EXCEPT ![c] = @ \o <<"run_once", "pending">>]
    /\ UNCHANGED <<EngineRows, pos, cur, ioLeft, poisoned, handles, ret,
                   produced, results, held, calls, abandoned, rowVars, wakeVars>>

(* IO arm: stmt.run_once()? failed, the ? returns the error *)
RunOnceErr(c) ==
    /\ pc[c] = "io"
    /\ EngineMayFail
    /\ failLeft' = failLeft - 1
    /\ Complete(c, ErrRunOnce, <<"run_once">>)
    /\ UNCHANGED <<EngineRows, pos, cur, ioLeft, poisoned, handles,
                   produced, results, held, calls, abandoned, rowVars, wakeVars>>

(* variant of StepBusy: Busy is handled like IO (run_once, then Pending) *)
StepBusyAsIO(c) ==
    /\ pc[c] = "locked"
    /\ EngineMayFail
    /\ failLeft' = failLeft - 1
    /\ pc' = [pc EXCEPT ![c] = "io"]
    /\ trace' = [trace EXCEPT ![c] = Append(@, "step:Busy")]
    /\ UNCHANGED <<EngineRows, pos, cur, ioLeft, lockHolder, poisoned, handles,
                   ret, produced, results, held, calls, abandoned, rowVars, wakeVars>>

(* step_with_waker answers StepResult::Busy *)
StepBusy(c) ==
    /\ pc[c] = "locked"
    /\ EngineMayFail
    /\ failLeft' = failLeft - 1
    /\ Complete(c, ErrLocked, <<"step:Busy">>)
    /\ UNCHANGED <<EngineRows, pos, cur, ioLeft, poisoned, handles,
                   produced, results, held, calls, abandoned, rowVars, wakeVars>>

(* variant of StepInterrupt: the interrupted step is retried later, the    *)
(* poll returns Pending                                                    *)
StepInterruptPending(c) ==
    /\ pc[c] = "locked"
    /\ EngineMayFail
    /\ failLeft' = failLeft - 1
    /\ pc' = [pc EXCEPT ![c] = "suspended"]
    /\ lockHolder' = 0
    /\ trace' = [trace EXCEPT ![c] = @ \o <<"step:Interrupt", "pending">>]
    /\ UNCHANGED <<EngineRows, pos, cur, ioLeft, poisoned, handles, ret,
                   produced, results, held, calls, abandoned, rowVars, wakeVars>>

(* step_with_waker answers StepResult::Interrupt *)
StepInterrupt(c) ==
    /\ pc[c] = "locked"
    /\ EngineMayFail
    /\ failLeft' = failLeft - 1
    /\ Complete(c, ErrInterrupted, <<"step:Interrupt">>)
    /\ UNCHANGED <<EngineRows, pos, cur, ioLeft, poisoned, handles,
                   produced, results, held, calls, abandoned, rowVars, wakeVars>>

(* step_with_waker(..)? returns Err: the ? returns the error *)
StepErr(c) ==
    /\ pc[c] = "locked"
    /\ EngineMayFail
    /\ failLeft' = failLeft - 1
    /\ Complete(c, ErrStep, <<"step:Err">>)
    /\ UNCHANGED <<EngineRows, pos, cur, ioLeft, poisoned, handles,
                   produced, results, held, calls, abandoned, rowVars, wakeVars>>

(* next.await returns to the caller of Rows::next, who keeps the Row *)
Return(c) ==
    /\ pc[c] = "ret"
    /\ results' = Append(results, [who |-> c, res |-> ret[c]])
    /\ held' = [held EXCEPT ![c] =
                  IF ret[c].tag = "Some"
                  THEN <<[row |-> ret[c].row, seq |-> ret[c].seq]>>
                  ELSE @]
    /\ pc' = [pc EXCEPT ![c] = "idle"]
    /\ ret' = [ret EXCEPT ![c] = NoResult]
    /\ trace' = [trace EXCEPT ![c] = <<>>]
    /\ UNCHANGED <<EngineRows, pos, cur, ioLeft, failLeft, lockHolder, poisoned,
                   handles, produced, calls, abandoned, rowVars>>
    /\ waker' = waker \ {c}
    /\ woken' = woken \ {c}

(* the Next future is dropped before completing (never during a poll) *)
DropNext(c) ==
    /\ pc[c] \in {"created", "suspended"}
    /\ abandoned' = (abandoned \/ pc[c] = "suspended")
    /\ pc' = [pc EXCEPT ![c] = "idle"]
    /\ trace' = [trace EXCEPT ![c] = <<>>]
    /\ UNCHANGED <<EngineRows, pos, cur, ioLeft, failLeft, lockHolder, poisoned,
                   handles, ret, produced, results, held, calls, rowVars>>
    /\ waker' = waker \ {c}
    /\ woken' = woken \ {c}

(* the engine finishes pending I/O and invokes the waker it was handed *)
EngineWakes(c) ==
    /\ c \in waker
    /\ waker' = waker \ {c}
    /\ woken' = woken \cup {c}
    /\ UNCHANGED <<streamVars, rowVars>>

(* another owner of the Arc<Mutex<Statement>> panics while holding the lock *)
OwnerPanics ==
    /\ lockHolder = 0
    /\ ~poisoned
    /\ poisoned' = TRUE
    /\ UNCHANGED <<EngineRows, pos, cur, ioLeft, failLeft, lockHolder, handles,
                   pc, ret, trace, produced, results, held, calls, abandoned,
                   rowVars, wakeVars>>

Next ==
    \/ \E c \in Clones, d \in Clones : CloneRows(c, d)
    \/ \E c \in Clones : CallNext(c)
    \/ \E c \in Clones : Acquire(c)
    \/ \E c \in Clones : StepRow(c)
    \/ \E c \in Clones : ReadRow(c)
    \/ \E c \in Clones : StepDone(c)
    \/ \E c \in Clones : StepIO(c)
    \/ \E c \in Clones : RunOnceOk(c)
    \/ \E c \in Clones : RunOnceErr(c)
    \/ \E c \in Clones : StepBusy(c)
    \/ \E c \in Clones : StepInterrupt(c)
    \/ \E c \in Clones : StepErr(c)
    \/ \E c \in Clones : Return(c)
    \/ \E c \in Clones : DropNext(c)
    \/ \E c \in Clones : EngineWakes(c)
    \/ OwnerPanics

Spec == Init /\ [][Next]_vars

(* --------------------------- Row access ------------------------------- *)
(* impl FromIterator<&Value> for Row: the values cloned, names: vec![] *)
(* variant of RowFromIter: Null values are left out of the collected Row *)
RowFromIterSkipsNull(vals) ==
    Row(SelectSeq(vals, LAMBDA v : v.kind # "Null"), <<>>)

RowFromIter(vals) == Row([i \in 1..Len(vals) |-> vals[i]], <<>>)

(* Row::column_count *)
column_count(r) == Len(r.values)

(* Result<usize> of an index resolution, Result<Value> / Result<T> of a read *)
OkIdx(i) == [tag |-> "Ok", val |-> CoreNull, idx |-> i, err |-> "", name |-> ""]
OkVal(v) == [tag |-> "Ok", val |-> v, idx |-> 0, err |-> "", name |-> ""]
ErrIndex(i) ==
    [tag |-> "Err", val |-> CoreNull, idx |-> i, err |-> "InvalidColumnIndex", name |-> ""]
ErrName(n) ==
    [tag |-> "Err", val |-> CoreNull, idx |-> 0, err |-> "InvalidColumnName", name |-> n]
ErrConversion ==
    [tag |-> "Err", val |-> CoreNull, idx |-> 0, err |-> "ConversionFailure", name |-> ""]
(* &self.values[idx] with idx outside the vector *)
Panic == [tag |-> "Panic", val |-> CoreNull, idx |-> 0, err |-> "", name |-> ""]

(* Iterator::position: zero-based index of the first match, -1 for None *)
RECURSIVE PositionFrom(_, _, _)
PositionFrom(names, name, i) ==
    IF i >= Len(names) THEN -1
    ELSE IF names[i + 1] = name THEN i
    ELSE PositionFrom(names, name, i + 1)

(* variant of Position: the last match (rposition) instead of the first *)
PositionLast(names, name) ==
    IF \E i \in 1..Len(names) : names[i] = name
    THEN (CHOOSE i \in 1..Len(names) :
            /\ names[i] = name
            /\ \A j \in (i + 1)..Len(names) : names[j] # name) - 1
    ELSE -1

Position(names, name) == PositionFrom(names, name, 0)

(* Row::column_index *)
column_index(r, name) ==
    LET idx == Position(r.names, name) IN
    IF idx = -1 THEN ErrName(name)
    ELSE IF idx > column_count(r) THEN ErrIndex(idx)
    ELSE OkIdx(idx)

(* variant of UsizeIdx: > where the code has >= *)
UsizeIdxOffByOne(i, r) ==
    IF i > column_count(r) THEN ErrIndex(i) ELSE OkIdx(i)

(* impl RowIndex for usize *)
UsizeIdx(i, r) ==
    IF i >= column_count(r) THEN ErrIndex(i) ELSE OkIdx(i)

(* impl RowIndex for &str *)
StrIdx(name, r) == column_index(r, name)

(* variant of ToPublic: a Float is returned as an Integer *)
ToPublicCoerced(v) ==
    CASE v.kind = "Integer" -> [kind |-> "Integer", payload |-> v.payload]
      [] v.kind = "Null" -> [kind |-> "Null", payload |-> 0]
      [] v.kind = "Float" -> [kind |-> "Integer", payload |-> v.payload]
      [] v.kind = "Text" -> [kind |-> "Text", payload |-> v.payload]
      [] v.kind = "Blob" -> [kind |-> "Blob", payload |-> v.payload]

(* the match of Row::get_value: engine value to public Value *)
ToPublic(v) ==
    CASE v.kind = "Integer" -> [kind |-> "Integer", payload |-> v.payload]
      [] v.kind = "Null" -> [kind |-> "Null", payload |-> 0]
      [] v.kind = "Float" -> [kind |-> "Real", payload |-> v.payload]
      [] v.kind = "Text" -> [kind |-> "Text", payload |-> v.payload]
      [] v.kind = "Blob" -> [kind |-> "Blob", payload |-> v.payload]

(* Row::get_value after idx.idx(self)?: the value at the resolved position *)
get_value(r, resolved) ==
    IF resolved.tag # "Ok" THEN resolved
    ELSE IF resolved.idx >= Len(r.values) THEN Panic
    ELSE OkVal(ToPublic(r.values[resolved.idx + 1]))

(* FromValue::from_sql for host type ty: the stored kind must be ty's kind *)
HostTypes == {"i64", "String"}
KindOfType(ty) == IF ty = "i64" THEN "Integer" ELSE "Text"
from_sql(ty, v) ==
    IF v.kind = KindOfType(ty)
    THEN OkVal([kind |-> ty, payload |-> v.payload])
    ELSE ErrConversion

(* Row::get after idx.idx(self)?: from_sql of the value, errors mapped to   *)
(* ConversionFailure                                                       *)
get(r, resolved, ty) ==
    IF resolved.tag # "Ok" THEN resolved
    ELSE IF resolved.idx >= Len(r.values) THEN Panic
    ELSE from_sql(ty, r.values[resolved.idx + 1])

(* inputs of the Row access specification *)
NamePool == {"id", "name"}
NameInputs == NamePool \cup {"missing"}
IdxInputs == 0..(MaxCols + 1) \cup {UsizeMax}
ValueSeqs == SeqsUpTo(CoreValues, MaxCols)

InitRow ==
    /\ EngineRows = <<>>
    /\ pos = 0
    /\ cur = <<>>
    /\ ioLeft = 0
    /\ failLeft = 0
    /\ lockHolder = 0
    /\ poisoned = FALSE
    /\ handles = {1}
    /\ pc = [c \in Clones |-> "idle"]
    /\ ret = [c \in Clones |-> NoResult]
    /\ trace = [c \in Clones |-> <<>>]
    /\ produced = <<>>
    /\ results = <<>>
    /\ held = [c \in Clones |-> <<>>]
    /\ calls = 0
    /\ abandoned = FALSE
    /\ waker = {}
    /\ woken = {}
    /\ row = <<>>
    /\ call = NoCall
    /\ out = NoOut
    /\ origin = NoOrigin

(* a Row as Next::poll builds it: one name per column of the statement *)
BuildFromStmt ==
    \E vals \in ValueSeqs :
      \E names \in [1..Len(vals) -> NamePool] :
        /\ row = <<>>
        /\ row' = <<RowFromStmt(vals, Len(vals), names)>>
        /\ origin' = [path |-> "next", vals |-> vals, names |-> names]
        /\ call' = NoCall
        /\ out' = NoOut
        /\ UNCHANGED <<streamVars, wakeVars>>

(* a Row collected from bare values *)
BuildFromIter ==
    \E vals \in ValueSeqs :
        /\ row = <<>>
        /\ row' = <<RowFromIter(vals)>>
        /\ origin' = [path |-> "iter", vals |-> vals, names |-> <<>>]
        /\ call' = NoCall
        /\ out' = NoOut
        /\ UNCHANGED <<streamVars, wakeVars>>

(* row.get_value(i) with i: usize *)
GetValueByIdx ==
    /\ row # <<>>
    /\ \E i \in IdxInputs :
        /\ call' = [op |-> "get_value", idx |-> i, name |-> "", ty |-> ""]
        /\ out' = get_value(row[1], UsizeIdx(i, row[1]))
    /\ UNCHANGED <<streamVars, wakeVars, row, origin>>

(* row.get_value(name) with name: &str *)
GetValueByName ==
    /\ row # <<>>
    /\ \E n \in NameInputs :
        /\ call' = [op |-> "get_value_name", idx |-> 0, name |-> n, ty |-> ""]
        /\ out' = get_value(row[1], StrIdx(n, row[1]))
    /\ UNCHANGED <<streamVars, wakeVars, row, origin>>

(* row.get::<usize, T>(i) *)
GetByIdx ==
    /\ row # <<>>
    /\ \E i \in IdxInputs, ty \in HostTypes :
        /\ call' = [op |-> "get", idx |-> i, name |-> "", ty |-> ty]
        /\ out' = get(row[1], UsizeIdx(i, row[1]), ty)
    /\ UNCHANGED <<streamVars, wakeVars, row, origin>>

(* row.get::<&str, T>(name) *)
GetByName ==
    /\ row # <<>>
    /\ \E n \in NameInputs, ty \in HostTypes :
        /\ call' = [op |-> "get_name", idx |-> 0, name |-> n, ty |-> ty]
        /\ out' = get(row[1], StrIdx(n, row[1]), ty)
    /\ UNCHANGED <<streamVars, wakeVars, row, origin>>

(* row.column_index(name) *)
ColumnIndex ==
    /\ row # <<>>
    /\ \E n \in NameInputs :
        /\ call' = [op |-> "column_index", idx |-> 0, name |-> n, ty |-> ""]
        /\ out' = column_index(row[1], n)
    /\ UNCHANGED <<streamVars, wakeVars, row, origin>>

(* a Row as Next::poll builds it when num_columns() is not tied to the     *)
(* number of values of the current row: the two are read independently     *)
BuildFromStmtAny ==
    \E vals \in ValueSeqs, n \in 0..MaxCols :
      \E names \in [1..n -> NamePool] :
        /\ row = <<>>
        /\ row' = <<RowFromStmt(vals, n, names)>>
        /\ origin' = [path |-> "next", vals |-> vals, names |-> names]
        /\ call' = NoCall
        /\ out' = NoOut
        /\ UNCHANGED <<streamVars, wakeVars>>

NextRow ==
    \/ BuildFromStmt
    \/ BuildFromIter
    \/ GetValueByIdx
    \/ GetValueByName
    \/ GetByIdx
    \/ GetByName
    \/ ColumnIndex

SpecRow == InitRow /\ [][NextRow]_vars

NextRowAny ==
    \/ BuildFromStmtAny
    \/ BuildFromIter
    \/ GetValueByIdx
    \/ GetValueByName
    \/ GetByIdx
    \/ GetByName
    \/ ColumnIndex

SpecRowAny == InitRow /\ [][NextRowAny]_vars

(* the executor polls a task that was spawned or woken; a task that is     *)
(* suspended and not woken need not be polled again                        *)
PollWhenDue(c) == Acquire(c) /\ (pc[c] = "created" \/ c \in woken)

(* stmt.step_with_waker returns, with whichever answer *)
StepReturns(c) ==
    \/ StepRow(c)
    \/ StepDone(c)
    \/ StepIO(c)
    \/ StepBusy(c)
    \/ StepInterrupt(c)
    \/ StepErr(c)

(* stmt.run_once returns, with whichever answer *)
RunOnceReturns(c) == RunOnceOk(c) \/ RunOnceErr(c)

(* a running poll runs to its return, a completed future returns to its    *)
(* caller, a due task is polled, and the engine invokes a waker it holds;  *)
(* nothing obliges a caller to call next(), to clone or to drop            *)
Fairness ==
    \A c \in Clones :
        /\ WF_vars(PollWhenDue(c))
        /\ WF_vars(StepReturns(c))
        /\ WF_vars(RunOnceReturns(c))
        /\ WF_vars(ReadRow(c))
        /\ WF_vars(Return(c))
        /\ WF_vars(EngineWakes(c))

(* the stream after a first next() future was created and dropped before   *)
(* its first poll (CallNext, then DropNext): as after construction, with   *)
(* one call made                                                           *)
InitLive ==
    /\ EngineRows \in { [i \in 1..n |-> EngineRow(i)] : n \in 0..MaxRows }
    /\ pos = 0
    /\ cur = <<>>
    /\ ioLeft = MaxIO
    /\ failLeft = MaxFail
    /\ lockHolder = 0
    /\ poisoned = FALSE
    /\ handles = {1}
    /\ pc = [c \in Clones |-> "idle"]
    /\ ret = [c \in Clones |-> NoResult]
    /\ trace = [c \in Clones |-> <<>>]
    /\ produced = <<>>
    /\ results = <<>>
    /\ held = [c \in Clones |-> <<>>]
    /\ calls = 1
    /\ abandoned = FALSE
    /\ waker = {}
    /\ woken = {}
    /\ row = <<>>
    /\ call = NoCall
    /\ out = NoOut
    /\ origin = NoOrigin

SpecLive == InitLive /\ [][Next]_vars /\ Fairness

(* ------------------------------ properties ---------------------------- *)
(* the engine's k-th row as the Row a caller must receive for it *)
ExpectedRow(k) == [values |-> EngineRows[k], names |-> ColumnNames]

(* how many of the first i completed results carry a row *)
SomeCount(i) == Cardinality({ j \in 1..i : results[j].res.tag = "Some" })

Count(t, ev) == Cardinality({ i \in 1..Len(t) : t[i] = ev })

StepEvents ==
    {"step:Row", "step:Done", "step:IO", "step:Busy", "step:Interrupt", "step:Err"}

(* in how many places the row of engine index k has been handed to a call: *)
(* completed results plus polls returning it                               *)
DeliveredTo(k) ==
    Cardinality({ i \in 1..Len(results) :
                    results[i].res.tag = "Some" /\ results[i].res.seq = k })
    + Cardinality({ c \in Clones :
                    pc[c] = "ret" /\ ret[c].tag = "Some" /\ ret[c].seq = k })

(* the engine has produced row k and the poll that stepped has yet to read it *)
BeingRead(k) == k = pos /\ \E c \in Clones : pc[c] = "row"

(* every engine row produced so far went to exactly one call, as itself *)
EachRowOnce ==
    /\ \A k \in 1..pos : DeliveredTo(k) = (IF BeingRead(k) THEN 0 ELSE 1)
    /\ \A i \in 1..Len(results) :
         results[i].res.tag = "Some" =>
           /\ results[i].res.seq \in 1..pos
           /\ results[i].res.row = ExpectedRow(results[i].res.seq)
    /\ \A c \in Clones :
         (pc[c] = "ret" /\ ret[c].tag = "Some") =>
           /\ ret[c].seq \in 1..pos
           /\ ret[c].row = ExpectedRow(ret[c].seq)

(* the rows read under the statement lock, in lock order, are r1, r2, ... *)
ReadInEngineOrder ==
    /\ Len(produced) = (IF \E c \in Clones : pc[c] = "row" THEN pos - 1 ELSE pos)
    /\ \A k \in 1..Len(produced) : produced[k] = ExpectedRow(k)

(* the rows received, in the order the next() calls returned, are r1, r2, ... *)
ReturnedInEngineOrder ==
    \A i \in 1..Len(results) :
        results[i].res.tag = "Some" =>
          /\ SomeCount(i) <= Len(EngineRows)
          /\ results[i].res.row = ExpectedRow(SomeCount(i))

(* C1: on a stream that was never cloned, the completed next() results     *)
(* carry the engine's rows r1..rn in order, none skipped, duplicated or    *)
(* reordered, and None is returned only once all n rows were returned.     *)
C1_SingleStreamOrder ==
    handles = {1} =>
      /\ ReturnedInEngineOrder
      /\ \A i \in 1..Len(results) :
           results[i].res.tag = "None" => SomeCount(i) = Len(EngineRows)

C1_Witness ==
    /\ handles = {1}
    /\ Len(EngineRows) = 2
    /\ ioLeft < MaxIO
    /\ Len(results) = 3
    /\ results[1].res = OkSome(ExpectedRow(1), 1)
    /\ results[2].res = OkSome(ExpectedRow(2), 2)
    /\ results[3].res = OkNone

(* C2: a step answering Busy (Interrupt) is the only engine call of its    *)
(* poll and the last of its advancement: the poll completes with 'database *)
(* is locked' ('interrupted'), without run_once, row read, second step or  *)
(* suspension, and has released the lock.                                  *)
C2_BusyInterruptImmediate ==
    \A c \in Clones : \A i \in 1..Len(trace[c]) :
        trace[c][i] \in {"step:Busy", "step:Interrupt"} =>
          /\ i = Len(trace[c])
          /\ i > 1
          /\ trace[c][i - 1] = "lock"
          /\ pc[c] = "ret"
          /\ lockHolder # c
          /\ ret[c] = (IF trace[c][i] = "step:Busy" THEN ErrLocked ELSE ErrInterrupted)

C2_Witness ==
    \E c \in Clones :
        /\ pc[c] = "ret"
        /\ ret[c] = ErrLocked
        /\ trace[c] = <<"lock", "step:IO", "run_once", "pending", "lock", "step:Busy">>

(* C3: every poll that takes the lock makes exactly one step call,         *)
(* run_once is called only right after a step that answered IO, Pending    *)
(* only right after that run_once; so an advancement that yields a row     *)
(* after k suspensions made k+1 polls, k+1 steps and k run_once calls.     *)
C3_OneStepPerPoll ==
    \A c \in Clones :
      LET t == trace[c] IN
      /\ \A i \in 1..Len(t) :
           /\ t[i] \in {"lock", "lockfail"} => (i = 1 \/ t[i - 1] = "pending")
           /\ t[i] \in StepEvents => (i > 1 /\ t[i - 1] = "lock")
           /\ t[i] = "run_once" => (i > 1 /\ t[i - 1] = "step:IO")
           /\ t[i] = "pending" => (i > 1 /\ t[i - 1] = "run_once")
           /\ t[i] = "row" => (i > 1 /\ t[i - 1] = "step:Row")
      /\ pc[c] \in {"ret", "suspended"} =>
           Count(t, "lock") = Cardinality({ i \in 1..Len(t) : t[i] \in StepEvents })
      /\ (pc[c] = "ret" /\ ret[c].tag = "Some") =>
           LET k == Count(t, "pending") IN
           /\ Count(t, "lock") = k + 1
           /\ Count(t, "step:IO") = k
           /\ Count(t, "run_once") = k
           /\ Count(t, "step:Row") = 1

C3_Witness ==
    \E c \in Clones :
        /\ pc[c] = "ret"
        /\ ret[c].tag = "Some"
        /\ Count(trace[c], "pending") = 2
        /\ Count(trace[c], "run_once") = 2
        /\ Count(trace[c], "lock") = 3

(* C4 as stated: every engine row goes to exactly one next() call, and the *)
(* rows received by all callers, in completion order, are r1..rn.          *)
C4_CompletionOrder == EachRowOnce /\ ReturnedInEngineOrder

(* C4 amended: every engine row goes to exactly one next() call, and the   *)
(* rows in the order they were read under the statement lock are r1..rn    *)
(* (the order in which the calls return may differ).                       *)
C4_SharedCursor == EachRowOnce /\ ReadInEngineOrder

C4_Witness ==
    /\ handles = {1, 2}
    /\ \E i, j \in 1..Len(results) :
         /\ i < j
         /\ results[i].who # results[j].who
         /\ results[i].res.tag = "Some"
         /\ results[j].res.tag = "Some"
         /\ results[i].res.seq > results[j].res.seq

(* C5: once a suspended advancement has been dropped, the statement lock   *)
(* is held only by a poll that is running, no engine row is lost or handed *)
(* out changed, and rows keep being read in engine order.                  *)
C5_DropSuspendedSafe ==
    abandoned =>
      /\ lockHolder = 0 \/ pc[lockHolder] \in {"locked", "row", "io"}
      /\ \A c \in Clones : pc[c] \in {"idle", "created", "suspended"} => lockHolder # c
      /\ EachRowOnce
      /\ ReadInEngineOrder
      /\ handles = {1} => ReturnedInEngineOrder

(* never cloned: the drop came before the advancement now returning r2 *)
C5_Witness ==
    /\ abandoned
    /\ handles = {1}
    /\ Len(EngineRows) = 2
    /\ Len(results) = 1
    /\ results[1].res = OkSome(ExpectedRow(1), 1)
    /\ pc[1] = "ret"
    /\ ret[1] = OkSome(ExpectedRow(2), 2)
    /\ lockHolder = 0

(* what an advancement returns for each answer of its final step *)
AnswerOf(c, ev) ==
    CASE ev = "step:Row" -> OkSome(ExpectedRow(ret[c].seq), ret[c].seq)
      [] ev = "step:Done" -> OkNone
      [] ev = "step:IO" -> ErrRunOnce
      [] ev = "step:Busy" -> ErrLocked
      [] ev = "step:Interrupt" -> ErrInterrupted
      [] ev = "step:Err" -> ErrStep

(* C6: after a handle's advancement failed with an execution failure, a    *)
(* later next() on it that completes (the mutex not being poisoned) took   *)
(* the lock and made a fresh engine step in its final poll, and returns    *)
(* what that step reported.                                                *)
C6_FailureDoesNotClose ==
    \A c \in Clones :
      (HasFailed(c) /\ pc[c] = "ret" /\ ret[c] # ErrMutex) =>
        \E i \in 1..Len(trace[c]) - 1 :
          /\ trace[c][i] = "lock"
          /\ \A j \in (i + 1)..Len(trace[c]) : trace[c][j] # "lock"
          /\ trace[c][i + 1] \in StepEvents
          /\ ret[c] = AnswerOf(c, trace[c][i + 1])

C6_Witness ==
    \E c \in Clones :
        /\ HasFailed(c)
        /\ pc[c] = "ret"
        /\ ret[c].tag = "Some"
        /\ ret[c].row = ExpectedRow(pos)

(* positional reads: the index is a valid position of the row's values *)
InRange == call.idx < column_count(row[1])

(* C7 as stated: get_value(i) and get(i) succeed iff i < column_count(),   *)
(* and return InvalidColumnIndex(i) for every other i.                     *)
C7_SucceedIffInRange ==
    (row # <<>> /\ call.op \in {"get_value", "get"}) =>
      /\ out.tag = "Ok" <=> InRange
      /\ ~InRange => out = ErrIndex(call.idx)

(* C7 amended: get_value(i) succeeds iff i < column_count(); get(i) with   *)
(* i < column_count() succeeds or fails with ConversionFailure; for every  *)
(* other i both return InvalidColumnIndex(i); neither indexes outside the  *)
(* values.                                                                 *)
C7_PositionalBounds ==
    (row # <<>> /\ call.op \in {"get_value", "get"}) =>
      /\ out.tag # "Panic"
      /\ ~InRange => out = ErrIndex(call.idx)
      /\ out.tag = "Ok" => InRange
      /\ (InRange /\ call.op = "get_value") => out.tag = "Ok"
      /\ (InRange /\ call.op = "get") => (out.tag = "Ok" \/ out = ErrConversion)

C7_Witness ==
    /\ row # <<>>
    /\ call.op = "get_value"
    /\ column_count(row[1]) = MaxCols
    /\ call.idx = MaxCols
    /\ out = ErrIndex(MaxCols)

(* the public kind of each engine kind *)
PublicKind ==
    [k \in {"Null", "Integer", "Float", "Text", "Blob"} |->
        IF k = "Float" THEN "Real" ELSE k]

(* p is the smallest zero-based position of name n in names *)
FirstMatch(names, n, p) ==
    /\ p \in 0..(Len(names) - 1)
    /\ names[p + 1] = n
    /\ \A q \in 0..(p - 1) : names[q + 1] # n

(* C8: column_index(name) is the smallest position whose stored name is    *)
(* name, InvalidColumnName(name) when there is none; get_value(name) is    *)
(* the value at that position.                                             *)
C8_FirstNameWins ==
    (row # <<>> /\ call.op \in {"column_index", "get_value_name"}) =>
      LET names == row[1].names
          known == \E p \in 0..(Len(names) - 1) : names[p + 1] = call.name
      IN
      /\ ~known => out = ErrName(call.name)
      /\ (known /\ call.op = "column_index") =>
           (out.tag = "Ok" /\ FirstMatch(names, call.name, out.idx))
      /\ (known /\ call.op = "get_value_name") =>
           \E p \in 0..(Len(names) - 1) :
             /\ FirstMatch(names, call.name, p)
             /\ out = OkVal([kind |-> PublicKind[row[1].values[p + 1].kind],
                              payload |-> row[1].values[p + 1].payload])

C8_Witness ==
    /\ row # <<>>
    /\ row[1].names = <<"name", "name">>
    /\ call.op = "column_index"
    /\ call.name = "name"
    /\ out = OkIdx(0)

(* C9: a Row a caller holds keeps the values and names of the engine row   *)
(* it was read from, whatever the statement does afterwards.               *)
C9_RowIsSnapshot ==
    \A c \in Clones :
        held[c] # <<>> => held[c][1].row = ExpectedRow(held[c][1].seq)

C9_Witness ==
    \E c \in Clones :
        /\ held[c] # <<>>
        /\ held[c][1].seq = 1
        /\ pos = 2
        /\ cur = EngineRows[2]
        /\ cur # held[c][1].row.values

(* C10: get_value returns the stored value as the public Value of the same *)
(* kind (Float as Real) with an equal payload.                             *)
C10_KindsPreserved ==
    (row # <<>> /\ call.op = "get_value" /\ out.tag = "Ok") =>
      LET v == row[1].values[call.idx + 1] IN
      /\ out.val.kind = PublicKind[v.kind]
      /\ out.val.payload = v.payload

C10_Witness ==
    /\ row # <<>>
    /\ call.op = "get_value"
    /\ out = OkVal([kind |-> "Real", payload |-> 1])

(* the positions of an advancement that are inside a poll, after the lock *)
InPoll == {"locked", "row", "io"}

(* C11: an advancement that is suspended, completed, not yet polled or     *)
(* absent never holds the statement mutex; the mutex is held only by a     *)
(* poll that took it and has not returned.                                 *)
C11_NoLockAcrossSuspension ==
    /\ \A c \in Clones : pc[c] \notin InPoll => lockHolder # c
    /\ \A c \in Clones : pc[c] \in InPoll => lockHolder = c
    /\ lockHolder # 0 =>
         /\ Count(trace[lockHolder], "lock") = Count(trace[lockHolder], "pending") + 1
         /\ trace[lockHolder][Len(trace[lockHolder])] \notin {"pending", "names"}

C11_Witness ==
    \E c, d \in Clones :
        /\ pc[c] = "suspended"
        /\ pc[d] = "ret"
        /\ ret[d].tag = "Some"
        /\ lockHolder = 0
        /\ Count(trace[c], "pending") = 1

(* C12: an advancement is suspended exactly when its last poll returned    *)
(* Pending, and a poll returns Pending exactly when its step answered IO   *)
(* and the run_once after it succeeded: a step answering Row, Done, Busy,  *)
(* Interrupt or an error is followed by the row read at most and the poll  *)
(* completes; a run_once that is not followed by Pending failed the poll.  *)
C12_SuspendIffIO ==
    \A c \in Clones :
      LET t == trace[c]
          n == Len(t)
      IN
      /\ pc[c] = "suspended" <=> (n > 0 /\ t[n] = "pending")
      /\ \A i \in 1..n :
           /\ t[i] = "pending" =>
                (i >= 3 /\ t[i - 1] = "run_once" /\ t[i - 2] = "step:IO")
           /\ t[i] \in StepEvents \ {"step:IO"} =>
                /\ pc[c] \in {"row", "ret"}
                /\ \A j \in (i + 1)..n : t[j] \in {"row", "names"}
           /\ t[i] = "step:IO" =>
                \/ i = n /\ pc[c] = "io"
                \/ /\ i + 1 = n
                   /\ t[n] = "run_once"
                   /\ pc[c] = "ret"
                   /\ ret[c] = ErrRunOnce
                \/ /\ i + 2 <= n
                   /\ t[i + 1] = "run_once"
                   /\ t[i + 2] = "pending"

C12_Witness ==
    \E c \in Clones :
        /\ pc[c] = "suspended"
        /\ trace[c] = <<"lock", "step:IO", "run_once", "pending",
                        "lock", "step:IO", "run_once", "pending">>

(* C13: at most one poll is between lock() and its return; the row and     *)
(* the column names are read only right after a step that answered Row,    *)
(* by the poll that made it and still under its guard, with the engine's   *)
(* current row being the row of that step (so row() is Some).              *)
C13_OneCriticalSection ==
    /\ Cardinality({ c \in Clones : pc[c] \in InPoll }) <= 1
    /\ \A c \in Clones :
         pc[c] = "row" =>
           /\ lockHolder = c
           /\ cur # <<>>
           /\ pos \in 1..Len(EngineRows)
           /\ cur = EngineRows[pos]
           /\ Len(produced) = pos - 1
           /\ trace[c][Len(trace[c])] = "step:Row"
    /\ \A c \in Clones : \A i \in 1..Len(trace[c]) :
         /\ trace[c][i] = "row" =>
              /\ i > 1
              /\ trace[c][i - 1] = "step:Row"
              /\ i + 1 = Len(trace[c])
              /\ trace[c][i + 1] = "names"
         /\ trace[c][i] = "names" => (i > 1 /\ trace[c][i - 1] = "row")
         /\ trace[c][i] = "step:Row" =>
              (i = Len(trace[c]) \/ trace[c][i + 1] = "row")

C13_Witness ==
    \E c, d \in Clones :
        /\ c # d
        /\ pc[c] = "row"
        /\ pc[d] = "suspended"
        /\ d \in woken
        /\ lockHolder = c
        /\ pos = 2

(* C14: every Row has no names or as many names as values; a Row built by  *)
(* next() has one name per value, the statement's column names in order,   *)
(* beside the values of the row read.                                      *)
C14_RowShape ==
    row # <<>> =>
      /\ row[1].names = <<>> \/ Len(row[1].names) = Len(row[1].values)
      /\ origin.path = "next" =>
           /\ Len(row[1].names) = Len(row[1].values)
           /\ Len(row[1].values) = column_count(row[1])
           /\ column_count(row[1]) = Len(origin.names)
           /\ \A i \in 1..Len(origin.names) : row[1].names[i] = origin.names[i]
           /\ row[1].values = origin.vals

C14_Witness ==
    /\ row # <<>>
    /\ origin.path = "next"
    /\ row[1].names = <<"name", "id">>
    /\ Len(row[1].values) = 2
    /\ call.op = "column_index"

(* C15: column_index never returns Ok(i) with i >= column_count(): when    *)
(* the position found for the name is not a position of the values it      *)
(* returns InvalidColumnIndex, and the by-name reads never index outside   *)
(* the values.                                                             *)
C15_FailsClosed ==
    row # <<>> =>
      /\ call.op = "column_index" =>
           /\ out.tag = "Ok" => out.idx < column_count(row[1])
           /\ \A p \in 0..(Len(row[1].names) - 1) :
                (FirstMatch(row[1].names, call.name, p) /\ p >= column_count(row[1]))
                  => out = ErrIndex(p)
      /\ call.op \in {"get_value_name", "get_name"} => out.tag # "Panic"

(* C16: once the mutex is poisoned, a poll of any handle completes at once *)
(* with MutexError: lock() is its last event (no step, no run_once, no row *)
(* read, no Pending after it), the engine is left as it was, nobody holds  *)
(* the lock, and the mutex stays poisoned for every later advancement.     *)
C16_PoisonedFailsAtOnce ==
    /\ [](\A c \in Clones :
            /\ poisoned => (lockHolder = 0 /\ pc[c] \notin InPoll)
            /\ \A i \in 1..Len(trace[c]) :
                 trace[c][i] = "lockfail" =>
                   /\ i = Len(trace[c])
                   /\ poisoned
                   /\ pc[c] = "ret"
                   /\ ret[c] = ErrMutex)
    /\ [][poisoned =>
            /\ poisoned'
            /\ <<EngineRows, pos, cur, ioLeft, failLeft, produced>>'
                 = <<EngineRows, pos, cur, ioLeft, failLeft, produced>>
            /\ \A c \in Clones :
                 (pc[c] \in {"created", "suspended"} /\ pc'[c] \notin {pc[c], "idle"})
                   => /\ pc'[c] = "ret"
                      /\ ret'[c] = ErrMutex
                      /\ trace'[c] = Append(trace[c], "lockfail")]_vars

C16_Witness ==
    /\ poisoned
    /\ pc[1] = "ret"
    /\ ret[1] = ErrMutex
    /\ trace[1] = <<"lock", "step:IO", "run_once", "pending", "lockfail">>
    /\ pc[2] = "idle"
    /\ Len(results) = 1
    /\ results[1] = [who |-> 2, res |-> ErrMutex]

(* the engine failures an advancement has answered with or is returning *)
EngineFailures == {ErrStep, ErrRunOnce}

(* the errors poll makes of the Busy and Interrupt answers of a step, which *)
(* the scripted engine draws from the same budget as its failures           *)
StepRefusals == {ErrLocked, ErrInterrupted}

(* C18: a failing step, or a failing run_once after a step that answered   *)
(* IO, ends the advancement in that same poll with that failure: the       *)
(* failing call is the poll's last event, the poll does not suspend, the   *)
(* lock is released, and every failure the engine raised is the answer of  *)
(* some advancement.                                                       *)
C18_FailureEndsPoll ==
    /\ \A c \in Clones :
         LET t == trace[c]
             n == Len(t)
         IN
         /\ \A i \in 1..n :
              /\ t[i] = "step:Err" =>
                   /\ i = n
                   /\ pc[c] = "ret"
                   /\ ret[c] = ErrStep
              /\ (t[i] = "run_once" /\ (i = n \/ t[i + 1] # "pending")) =>
                   /\ i = n
                   /\ t[i - 1] = "step:IO"
                   /\ pc[c] = "ret"
                   /\ ret[c] = ErrRunOnce
         /\ pc[c] = "ret" => lockHolder # c
         /\ (pc[c] = "ret" /\ ret[c] \in EngineFailures) =>
              t[n] \in {"step:Err", "run_once"}
    /\ MaxFail - failLeft
         = Cardinality({ i \in 1..Len(results) :
                           results[i].res \in EngineFailures \cup StepRefusals })
           + Cardinality({ c \in Clones :
                             /\ pc[c] = "ret"
                             /\ ret[c] \in EngineFailures \cup StepRefusals })

C18_Witness ==
    /\ pc[1] = "ret"
    /\ ret[1] = ErrRunOnce
    /\ trace[1] = <<"lock", "step:IO", "run_once", "pending",
                    "lock", "step:IO", "run_once">>
    /\ lockHolder = 2
    /\ failLeft = 0

(* C19: a Row collected from bare values has no names and exactly the      *)
(* given values in the given order; column_count() is their number, reads  *)
(* by position answer as on any Row, and column_index and the reads by     *)
(* name fail with InvalidColumnName for every name.                        *)
C19_IterRowHasNoNames ==
    origin.path = "iter" =>
      /\ row[1].names = <<>>
      /\ row[1].values = origin.vals
      /\ column_count(row[1]) = Len(origin.vals)
      /\ call.op \in {"column_index", "get_value_name", "get_name"} =>
           out = ErrName(call.name)
      /\ (call.op \in {"get_value", "get"} /\ call.idx >= Len(origin.vals)) =>
           out = ErrIndex(call.idx)
      /\ (call.op = "get_value" /\ call.idx < Len(origin.vals)) =>
           out = OkVal(ToPublic(origin.vals[call.idx + 1]))
      /\ (call.op = "get" /\ call.idx < Len(origin.vals)) =>
           out = from_sql(call.ty, origin.vals[call.idx + 1])

C19_Witness ==
    /\ origin.path = "iter"
    /\ Len(origin.vals) = 2
    /\ origin.vals[1].kind = "Null"
    /\ call.op = "get_name"
    /\ call.name = "id"
    /\ out = ErrName("id")

(* C17: a poll that suspends has handed the task's waker to the engine and *)
(* does not wake the task itself; with the engine invoking the wakers it   *)
(* holds and answering IO boundedly often, every advancement of every      *)
(* handle that is not dropped completes, whoever else holds the lock       *)
(* in between.                                                             *)
C17_EveryAdvancementCompletes ==
    /\ [](\A c \in Clones : pc[c] = "suspended" => c \in waker \cup woken)
    /\ [][\A c \in Clones :
            (pc[c] = "io" /\ pc'[c] = "suspended") =>
               (woken' = woken /\ waker' = waker)]_vars
    /\ \A c \in Clones :
         (pc[c] \in {"created", "suspended"} \cup InPoll)
           ~> (pc[c] \in {"ret", "idle"})

(* the state SpecLive starts from is a state of Spec *)
InitLiveReached == InitLive /\ calls = 1 /\ pc[1] = "idle"

C17_Witness ==
    /\ pc[1] = "ret"
    /\ ret[1].tag = "Some"
    /\ Count(trace[1], "pending") = 1
    /\ pc[2] = "suspended"
    /\ 2 \in waker
    /\ woken = {}

====
